---- MODULE Spec2Model ----
(***************************************************************************)
(* Model of the two layers of "Tutorial 09 - Complete":                    *)
(*   AudioLayer   (src/layers/AudioLayer.cpp)                              *)
(*   SceneBuilder (src/layers/SceneBuildLayer.cpp), with the helper        *)
(*                CreateSolidTexture and its static cache.                 *)
(* The engine (AudioEngine, florp, entt) is outside the repository: it is  *)
(* modelled by the log of the calls made to it, by the outcome each call   *)
(* reports, and by the objects the calls create.                           *)
(***************************************************************************)
EXTENDS Integers, Sequences, FiniteSets, TLC

VARIABLES
    audioPc,      \* statements of AudioLayer::Initialize executed so far (0..3)
    audioCalls,   \* AudioEngine calls issued, in order: [fn, arg]
    audioOk,      \* outcome the engine reported for each call of Initialize
    layerCalls,   \* AudioLayer methods the application has invoked, in order
    cache,        \* CreateSolidTexture: static unordered_map colour -> texture
    textures,     \* every Texture2D made by CreateSolidTexture; id = index
    texCalls,     \* CreateSolidTexture calls: [color, result, created]
    spc,          \* position of SceneBuilder::Initialize
    scenes,       \* SceneManager: names of the registered scenes
    currentScene, \* SceneManager: name of the current scene ("" = none)
    locals,       \* local variables of SceneBuilder::Initialize
    entities,     \* entities created, in creation order; entt id = index
    sceneCalls,   \* engine calls issued by SceneBuildLayer.cpp: [fn, arg]
    shadowOut     \* CreateShadowCaster calls: [entityOut, light]

vars == << audioPc, audioCalls, audioOk, layerCalls, cache, textures, texCalls,
           spc, scenes, currentScene, locals, entities, sceneCalls,
           shadowOut >>

audioVars == << audioPc, audioCalls, audioOk, layerCalls >>
texVars   == << cache, textures, texCalls >>
sceneVars == << spc, scenes, currentScene, locals, entities, sceneCalls,
               shadowOut >>

\* ---- bounds ----
MaxLayerCalls == 5      \* Update/Shutdown calls the application makes
MaxTexCalls == 4        \* calls of CreateSolidTexture
MaxShadowCasters == 1   \* calls of CreateShadowCaster

\* A null pointer / absent component, and a pointer to (or a present) x.
Null == << >>
Ptr(x) == << x >>

Call(f, a) == [fn |-> f, arg |-> a]

\* ------------------------------------------------------------------------
\* AudioLayer
\* ------------------------------------------------------------------------

\* The statements of AudioLayer::Initialize, in program order.
InitializeBodySwapped ==
    << Call("AudioEngine::Init", ""),
       Call("AudioEngine::PlaySound", "AH.wav"),
       Call("AudioEngine::LoadSound", "AH.wav") >>

InitializeBody ==
    << Call("AudioEngine::Init", ""),
       Call("AudioEngine::LoadSound", "AH.wav"),
       Call("AudioEngine::PlaySound", "AH.wav") >>

\* Control flow of AudioLayer::Initialize: straight-line, the statement
\* after a call is the next one whatever the call reported.
InitializeNextChecked(pc, ok) == IF ok THEN pc + 1 ELSE Len(InitializeBody)

InitializeNext(pc, ok) == pc + 1

\* The statements of AudioLayer::Update.
UpdateBodyReinit ==
    << Call("AudioEngine::Init", ""), Call("AudioEngine::Update", "") >>

UpdateBody == << Call("AudioEngine::Update", "") >>

\* The statements of AudioLayer::Shutdown.
ShutdownBody == << Call("AudioEngine::Shutdown", "") >>

\* One statement of AudioLayer::Initialize; the engine reports ok or not.
AudioLayer_Initialize ==
    /\ audioPc < Len(InitializeBody)
    /\ \E ok \in BOOLEAN :
          /\ audioCalls' = Append(audioCalls, InitializeBody[audioPc + 1])
          /\ audioOk' = Append(audioOk, ok)
          /\ audioPc' = InitializeNext(audioPc, ok)
    /\ layerCalls' = IF audioPc = 0 THEN Append(layerCalls, "Initialize")
                                    ELSE layerCalls
    /\ UNCHANGED << texVars, sceneVars >>

AudioLayer_Update ==
    /\ audioPc = Len(InitializeBody)
    /\ Len(layerCalls) < 1 + MaxLayerCalls
    /\ audioCalls' = audioCalls \o UpdateBody
    /\ layerCalls' = Append(layerCalls, "Update")
    /\ UNCHANGED << audioPc, audioOk, texVars, sceneVars >>

AudioLayer_Shutdown ==
    /\ audioPc = Len(InitializeBody)
    /\ Len(layerCalls) < 1 + MaxLayerCalls
    /\ audioCalls' = audioCalls \o ShutdownBody
    /\ layerCalls' = Append(layerCalls, "Shutdown")
    /\ UNCHANGED << audioPc, audioOk, texVars, sceneVars >>

\* ------------------------------------------------------------------------
\* CreateSolidTexture
\* ------------------------------------------------------------------------

\* Colours passed by callers (glm::vec4 as r, g, b, a).
Colors == { <<1, 1, 1, 1>>, <<1, 0, 0, 1>>, <<0, 0, 0, 0>> }

\* The Texture2D built for a colour: a single RGBA8 pixel, no filtering.
SolidTexture(color) ==
    [ Width |-> 1, Height |-> 1, Format |-> "RGBA8", MipmapLevels |-> 1,
      MagFilter |-> "Nearest", MinFilter |-> "Nearest",
      Wrap |-> "ClampToEdge", Pixel |-> color ]

\* CreateSolidTexture(color) on cache c and textures t: the cache and the
\* textures after the call, and the texture returned.
CreateSolidTextureNoLookup(c, t, color) ==
    LET id == Len(t) + 1
    IN  [ cache    |-> [k \in DOMAIN c \cup {color} |->
                            IF k = color THEN id ELSE c[k]],
          textures |-> Append(t, SolidTexture(color)),
          result   |-> id ]

CreateSolidTexture(c, t, color) ==
    IF color \in DOMAIN c
    THEN [ cache |-> c, textures |-> t, result |-> c[color] ]
    ELSE LET id == Len(t) + 1
         IN  [ cache    |-> [k \in DOMAIN c \cup {color} |->
                                 IF k = color THEN id ELSE c[k]],
               textures |-> Append(t, SolidTexture(color)),
               result   |-> id ]

CallCreateSolidTexture ==
    /\ Len(texCalls) < MaxTexCalls
    /\ \E color \in Colors :
          LET r == CreateSolidTexture(cache, textures, color)
          IN  /\ cache' = r.cache
              /\ textures' = r.textures
              /\ texCalls' = Append(texCalls,
                                [ color |-> color, result |-> r.result,
                                  created |-> Len(r.textures) - Len(textures) ])
    /\ UNCHANGED << audioVars, sceneVars >>

\* ------------------------------------------------------------------------
\* SceneBuilder::Initialize
\* ------------------------------------------------------------------------

\* Literals of the point-light block.
numMonkeys == 6           \* const int numMonkeys
LightLoopBound == 1       \* for (int i = 0; i < 1; i++)
LightRadius == 20         \* cos(step * i) * 20.0f
LightHeight == 2          \* y of the light position

\* cos and sin of i * step, step = two_pi / numMonkeys, in thousandths.
CosStep(i) == << 1000, 500, -500, -1000, -500, 500 >>[(i % numMonkeys) + 1]
SinStep(i) == << 0, 866, 866, 0, -866, -866 >>[(i % numMonkeys) + 1]

\* Names passed to SceneManager.
RegisterSceneArg == "main"
SetCurrentSceneArgOther == "menu"

SetCurrentSceneArg == "main"

\* SceneManager::SetCurrentScene: the named scene becomes current when it
\* is registered.
SetCurrentScene(name) ==
    currentScene' = IF name \in scenes THEN name ELSE currentScene

NoLocals ==
    [ scene |-> Null, data |-> Null, data2 |-> Null, shader |-> Null,
      emissiveShader |-> Null, monkeyMat |-> Null, paddleMat |-> Null,
      marbleMat |-> Null, mat2 |-> Null, i |-> Null ]

\* Values the engine factories return; ok is what the engine reported.
MeshData(file, ok) == [ file |-> file, ok |-> ok ]
Shader(vs, fs, ok) == [ vs |-> vs, fs |-> fs, ok |-> ok ]
Texture(file, ok) == [ file |-> file, ok |-> ok ]
Material(shader, albedo, emissive, strength) ==
    [ shader |-> shader, s_Albedo |-> albedo, s_Emissive |-> emissive,
      a_EmissiveStrength |-> strength ]

\* MeshBuilder::Bake(data): a mesh object, whatever the data holds.
Bake(data) == Ptr([ baked |-> data ])

Behaviour(type, args) == [ type |-> type, args |-> args ]

\* scene->CreateEntity(): a fresh entity with a default Transform.
CreateEntity(scene) ==
    [ scene |-> scene, Renderable |-> Null, Camera |-> Null,
      PointLight |-> Null, ShadowLight |-> Null,
      Position |-> << 0, 0, 0 >>, LookAt |-> Null, Behaviours |-> << >> ]

\* Registry().assign<RenderableComponent>(e): default-constructed.
RenderableComponent == [ Mesh |-> Null, Material |-> Null ]

\* "The central monkey" block.
CentralMonkey(l) ==
    [ CreateEntity(Head(l.scene)) EXCEPT
        !.Renderable = Ptr([ RenderableComponent EXCEPT
                               !.Mesh = Bake(Head(l.data2)),
                               !.Material = l.paddleMat ]),
        !.Behaviours = << Behaviour("ControlBehaviour", << 1, 1, 1 >>) >> ]

\* "The central monkey 2" block.
CentralMonkey2(l) ==
    [ CreateEntity(Head(l.scene)) EXCEPT
        !.Renderable = Ptr([ RenderableComponent EXCEPT
                               !.Mesh = Bake(Head(l.data)),
                               !.Material = l.monkeyMat ]),
        !.Behaviours = << Behaviour("RotateBehaviour", << 45, 45, 45 >>),
                          Behaviour("RandomBehaviour", << >>) >> ]

\* "The central monkey 3" block.
CentralMonkey3SameSpin(l) ==
    [ CreateEntity(Head(l.scene)) EXCEPT
        !.Renderable = Ptr([ RenderableComponent EXCEPT
                               !.Mesh = Bake(Head(l.data)),
                               !.Material = l.monkeyMat ]),
        !.Behaviours = << Behaviour("RotateBehaviour", << 45, 45, 45 >>),
                          Behaviour("RandomBehaviour", << >>) >> ]

CentralMonkey3(l) ==
    [ CreateEntity(Head(l.scene)) EXCEPT
        !.Renderable = Ptr([ RenderableComponent EXCEPT
                               !.Mesh = Bake(Head(l.data)),
                               !.Material = l.monkeyMat ]),
        !.Behaviours = << Behaviour("RotateBehaviour", << -45, -45, -45 >>),
                          Behaviour("RandomBehaviour", << >>) >> ]

\* The camera region: a CameraComponent, a Transform, and a
\* RenderableComponent that is assigned and left as constructed.
CameraEntity(l) ==
    [ CreateEntity(Head(l.scene)) EXCEPT
        !.Camera = Ptr([ BackBuffer |-> "MainBuffer",
                         FrontBuffer |-> "MainBuffer.Clone",
                         IsMainCamera |-> TRUE,
                         FovDegrees |-> 60 ]),
        !.Position = << 0, 10000, 5000 >>,
        !.LookAt = Ptr([ target |-> << 0, 0, 0 >>, up |-> << 0, 1, 0 >> ]),
        !.Renderable = Ptr(RenderableComponent) ]

\* One iteration of the point-light loop, for loop counter i.
\* Colour and position are in thousandths; attenuation is 1.0f / 10.0f.
PointLight(l, i) ==
    [ CreateEntity(Head(l.scene)) EXCEPT
        !.PointLight = Ptr([ Color |-> << (1000 - SinStep(i)) \div 20,
                                          (CosStep(i) + 1000) \div 20,
                                          (SinStep(i) + 1000) \div 20 >>,
                             Attenuation |-> [ num |-> 1, den |-> 10 ] ]),
        !.Position = << CosStep(i) * LightRadius, LightHeight * 1000,
                        SinStep(i) * LightRadius >>,
        !.Behaviours = << Behaviour("LightFlickerBehaviour", << 20, 6, 12 >>) >> ]

\* A step of Initialize: from position `from` to position `to`, issuing
\* the engine calls `calls`.
Step(from, to, calls) ==
    /\ spc = from
    /\ spc' = to
    /\ sceneCalls' = sceneCalls \o calls
    /\ UNCHANGED << audioVars, texVars, shadowOut >>

SceneBuilder_RegisterScene ==
    /\ Step("RegisterScene", "SetCurrentScene",
            << Call("SceneManager::RegisterScene", RegisterSceneArg) >>)
    /\ scenes' = scenes \cup { RegisterSceneArg }
    /\ locals' = [ locals EXCEPT !.scene = Ptr(RegisterSceneArg) ]
    /\ UNCHANGED << currentScene, entities >>

SceneBuilder_SetCurrentScene ==
    /\ Step("SetCurrentScene", "LoadPaddle",
            << Call("SceneManager::SetCurrentScene", SetCurrentSceneArg) >>)
    /\ SetCurrentScene(SetCurrentSceneArg)
    /\ UNCHANGED << scenes, locals, entities >>

SceneBuilder_LoadPaddle ==
    /\ Step("LoadPaddle", "LoadBall",
            << Call("ObjLoader::LoadObj", "paddle.obj") >>)
    /\ \E ok \in BOOLEAN :
          locals' = [ locals EXCEPT !.data = Ptr(MeshData("paddle.obj", ok)) ]
    /\ UNCHANGED << scenes, currentScene, entities >>

SceneBuilder_LoadBall ==
    /\ Step("LoadBall", "Shader",
            << Call("ObjLoader::LoadObj", "ball.obj") >>)
    /\ \E ok \in BOOLEAN :
          locals' = [ locals EXCEPT !.data2 = Ptr(MeshData("ball.obj", ok)) ]
    /\ UNCHANGED << scenes, currentScene, entities >>

SceneBuilder_Shader ==
    /\ Step("Shader", "EmissiveShader",
            << Call("Shader::LoadPart", "shaders/lighting.vs.glsl"),
               Call("Shader::LoadPart", "shaders/forward.fs.glsl"),
               Call("Shader::Link", "shader") >>)
    /\ \E ok \in BOOLEAN :
          locals' = [ locals EXCEPT !.shader =
                        Ptr(Shader("shaders/lighting.vs.glsl",
                                   "shaders/forward.fs.glsl", ok)) ]
    /\ UNCHANGED << scenes, currentScene, entities >>

SceneBuilder_EmissiveShader ==
    /\ Step("EmissiveShader", "MonkeyMat",
            << Call("Shader::LoadPart", "shaders/lighting.vs.glsl"),
               Call("Shader::LoadPart", "shaders/forward-emissive.fs.glsl"),
               Call("Shader::Link", "emissiveShader") >>)
    /\ \E ok \in BOOLEAN :
          locals' = [ locals EXCEPT !.emissiveShader =
                        Ptr(Shader("shaders/lighting.vs.glsl",
                                   "shaders/forward-emissive.fs.glsl", ok)) ]
    /\ UNCHANGED << scenes, currentScene, entities >>

SceneBuilder_MonkeyMat ==
    /\ Step("MonkeyMat", "PaddleMat",
            << Call("Texture2D::LoadFromFile", "matrix.png"),
               Call("Texture2D::LoadFromFile", "monkey_emissive.png") >>)
    /\ \E ok1, ok2 \in BOOLEAN :
          locals' = [ locals EXCEPT !.monkeyMat =
                        Ptr(Material(Head(locals.emissiveShader),
                                     Ptr(Texture("matrix.png", ok1)),
                                     Ptr(Texture("monkey_emissive.png", ok2)),
                                     Ptr(4))) ]
    /\ UNCHANGED << scenes, currentScene, entities >>

SceneBuilder_PaddleMat ==
    /\ Step("PaddleMat", "MarbleMat",
            << Call("Texture2D::LoadFromFile", "marble.png"),
               Call("Texture2D::LoadFromFile", "monkey_emissive.png") >>)
    /\ \E ok1, ok2 \in BOOLEAN :
          locals' = [ locals EXCEPT !.paddleMat =
                        Ptr(Material(Head(locals.emissiveShader),
                                     Ptr(Texture("marble.png", ok1)),
                                     Ptr(Texture("monkey_emissive.png", ok2)),
                                     Ptr(10))) ]
    /\ UNCHANGED << scenes, currentScene, entities >>

SceneBuilder_MarbleMat ==
    /\ Step("MarbleMat", "Mat2",
            << Call("Texture2D::LoadFromFile", "marble.png") >>)
    /\ \E ok1 \in BOOLEAN :
          locals' = [ locals EXCEPT !.marbleMat =
                        Ptr(Material(Head(locals.shader),
                                     Ptr(Texture("marble.png", ok1)),
                                     Null, Null)) ]
    /\ UNCHANGED << scenes, currentScene, entities >>

SceneBuilder_Mat2 ==
    /\ Step("Mat2", "CentralMonkey",
            << Call("Texture2D::LoadFromFile", "polka.png"),
               Call("Texture2D::LoadFromFile", "polka.png") >>)
    /\ \E ok1, ok2 \in BOOLEAN :
          locals' = [ locals EXCEPT !.mat2 =
                        Ptr(Material(Head(locals.emissiveShader),
                                     Ptr(Texture("polka.png", ok1)),
                                     Ptr(Texture("polka.png", ok2)),
                                     Ptr(1))) ]
    /\ UNCHANGED << scenes, currentScene, entities >>

SceneBuilder_CentralMonkey ==
    /\ Step("CentralMonkey", "CentralMonkey2",
            << Call("Scene::CreateEntity", Head(locals.scene)),
               Call("Registry::assign", "RenderableComponent"),
               Call("MeshBuilder::Bake", "data2"),
               Call("Scene::AddBehaviour", "ControlBehaviour") >>)
    /\ entities' = Append(entities, CentralMonkey(locals))
    /\ UNCHANGED << scenes, currentScene, locals >>

SceneBuilder_CentralMonkey2 ==
    /\ Step("CentralMonkey2", "CentralMonkey3",
            << Call("Scene::CreateEntity", Head(locals.scene)),
               Call("Registry::assign", "RenderableComponent"),
               Call("MeshBuilder::Bake", "data"),
               Call("Scene::AddBehaviour", "RotateBehaviour"),
               Call("Scene::AddBehaviour", "RandomBehaviour") >>)
    /\ entities' = Append(entities, CentralMonkey2(locals))
    /\ UNCHANGED << scenes, currentScene, locals >>

SceneBuilder_CentralMonkey3 ==
    /\ Step("CentralMonkey3", "Camera",
            << Call("Scene::CreateEntity", Head(locals.scene)),
               Call("Registry::assign", "RenderableComponent"),
               Call("MeshBuilder::Bake", "data"),
               Call("Scene::AddBehaviour", "RotateBehaviour"),
               Call("Scene::AddBehaviour", "RandomBehaviour") >>)
    /\ entities' = Append(entities, CentralMonkey3(locals))
    /\ UNCHANGED << scenes, currentScene, locals >>

\* The main frame buffer and the camera region; the loop counter starts.
SceneBuilder_Camera ==
    /\ Step("Camera", "LightLoop",
            << Call("FrameBuffer::Validate", "MainBuffer"),
               Call("FrameBuffer::SetDebugName", "MainBuffer"),
               Call("Scene::CreateEntity", Head(locals.scene)),
               Call("Registry::assign", "CameraComponent"),
               Call("FrameBuffer::Clone", "MainBuffer"),
               Call("Registry::assign", "RenderableComponent") >>)
    /\ entities' = Append(entities, CameraEntity(locals))
    /\ locals' = [ locals EXCEPT !.i = Ptr(0) ]
    /\ UNCHANGED << scenes, currentScene >>

\* One iteration of  for (int i = 0; i < 1; i++).
SceneBuilder_LightLoop ==
    /\ spc = "LightLoop"
    /\ Head(locals.i) < LightLoopBound
    /\ Step("LightLoop", "LightLoop",
            << Call("Scene::CreateEntity", Head(locals.scene)),
               Call("Registry::assign", "PointLightComponent"),
               Call("Scene::AddBehaviour", "LightFlickerBehaviour") >>)
    /\ entities' = Append(entities, PointLight(locals, Head(locals.i)))
    /\ locals' = [ locals EXCEPT !.i = Ptr(Head(locals.i) + 1) ]
    /\ UNCHANGED << scenes, currentScene >>

\* The loop condition fails: Initialize returns.
SceneBuilder_Return ==
    /\ spc = "LightLoop"
    /\ ~ (Head(locals.i) < LightLoopBound)
    /\ Step("LightLoop", "done", << >>)
    /\ UNCHANGED << scenes, currentScene, locals, entities >>

\* ------------------------------------------------------------------------
\* CreateShadowCaster
\* ------------------------------------------------------------------------

\* Arguments callers pass: distance (far plane), buffer name (nullptr or a
\* name) and whether entityOut is nullptr. Positions are in world units.
ShadowDistances == { 10, 20 }
ShadowNames == { Null, Ptr("Shadow") }
ShadowPos == << 0, 5, 0 >>
ShadowTarget == << 0, 0, 0 >>
ShadowUp == << 0, 0, 1 >>
ShadowFov == 60
ShadowBufferSize == << 1024, 1024 >>

\* The entity CreateShadowCaster creates in `scene`: a depth-only shadow
\* buffer (named when name is not nullptr), a ShadowLight with projection
\* perspective(fov, x / y, 0.25, distance), attenuation 1 / distance and
\* white colour, and a Transform at pos looking at target.
\* Positions, colour and near/far planes are in thousandths.
CreateShadowCaster(scene, pos, target, up, distance, fov, bufferSize, name) ==
    [ CreateEntity(scene) EXCEPT
        !.ShadowLight =
            Ptr([ ShadowBuffer |-> [ Width |-> bufferSize[1],
                                     Height |-> bufferSize[2],
                                     Attachments |-> << "Depth32" >>,
                                     DebugName |-> name ],
                  Projection |-> [ FovDegrees |-> fov,
                                   Aspect |-> [ num |-> bufferSize[1],
                                                den |-> bufferSize[2] ],
                                   Near |-> 250,
                                   Far |-> distance * 1000 ],
                  Attenuation |-> [ num |-> 1, den |-> distance ],
                  Color |-> << 1000, 1000, 1000 >> ]),
        !.Position = << pos[1] * 1000, pos[2] * 1000, pos[3] * 1000 >>,
        !.LookAt = Ptr([ target |-> target, up |-> up ]) ]

\* The engine calls CreateShadowCaster issues; SetDebugName only for a name.
ShadowCasterCalls(scene, name) ==
    << Call("FrameBuffer::Validate", "shadowBuffer") >>
    \o (IF name # Null THEN << Call("FrameBuffer::SetDebugName", Head(name)) >>
                       ELSE << >>)
    \o << Call("Scene::CreateEntity", scene),
          Call("Registry::assign", "ShadowLight") >>

\* A call of CreateShadowCaster by code outside SceneBuildLayer.cpp, on a
\* registered scene. The program is single-threaded, so it does not run
\* while SceneBuilder::Initialize is running.
CallCreateShadowCaster ==
    /\ spc = "done"
    /\ Len(shadowOut) < MaxShadowCasters
    /\ \E scene \in scenes, distance \in ShadowDistances,
          name \in ShadowNames, wantEntity \in BOOLEAN :
          LET id == Len(entities) + 1
          IN  /\ entities' = Append(entities,
                    CreateShadowCaster(scene, ShadowPos, ShadowTarget, ShadowUp,
                                       distance, ShadowFov, ShadowBufferSize,
                                       name))
              /\ sceneCalls' = sceneCalls \o ShadowCasterCalls(scene, name)
              /\ shadowOut' = Append(shadowOut,
                    [ entityOut |-> IF wantEntity THEN Ptr(id) ELSE Null,
                      light |-> id ])
    /\ UNCHANGED << audioVars, texVars, spc, scenes, currentScene, locals >>

\* ------------------------------------------------------------------------
\* Specifications
\* ------------------------------------------------------------------------

Init ==
    /\ audioPc = 0
    /\ audioCalls = << >>
    /\ audioOk = << >>
    /\ layerCalls = << >>
    /\ cache = << >>
    /\ textures = << >>
    /\ texCalls = << >>
    /\ spc = "RegisterScene"
    /\ scenes = { }
    /\ currentScene = ""
    /\ locals = NoLocals
    /\ entities = << >>
    /\ sceneCalls = << >>
    /\ shadowOut = << >>

NextAudio ==
    \/ AudioLayer_Initialize
    \/ AudioLayer_Update
    \/ AudioLayer_Shutdown

NextTexture == CallCreateSolidTexture

NextInitialize ==
    \/ SceneBuilder_RegisterScene
    \/ SceneBuilder_SetCurrentScene
    \/ SceneBuilder_LoadPaddle
    \/ SceneBuilder_LoadBall
    \/ SceneBuilder_Shader
    \/ SceneBuilder_EmissiveShader
    \/ SceneBuilder_MonkeyMat
    \/ SceneBuilder_PaddleMat
    \/ SceneBuilder_MarbleMat
    \/ SceneBuilder_Mat2
    \/ SceneBuilder_CentralMonkey
    \/ SceneBuilder_CentralMonkey2
    \/ SceneBuilder_CentralMonkey3
    \/ SceneBuilder_Camera
    \/ SceneBuilder_LightLoop
    \/ SceneBuilder_Return

\* SceneBuilder::Initialize, and CreateShadowCaster called on its scene.
NextScene ==
    \/ NextInitialize
    \/ CallCreateShadowCaster

\* Initialize of both layers, in either order.
NextLayers ==
    \/ AudioLayer_Initialize
    \/ NextInitialize

Next == NextAudio \/ NextTexture \/ NextScene

SpecAudio   == Init /\ [][NextAudio]_vars
SpecTexture == Init /\ [][NextTexture]_vars
SpecScene   == Init /\ [][NextScene]_vars
SpecLayers  == Init /\ [][NextLayers]_vars
Spec        == Init /\ [][Next]_vars

\* ------------------------------------------------------------------------
\* Properties
\* ------------------------------------------------------------------------

Min(a, b) == IF a < b THEN a ELSE b

\* The engine calls AudioLayer::Initialize is expected to issue.
AudioInitSequence ==
    << Call("AudioEngine::Init", ""),
       Call("AudioEngine::LoadSound", "AH.wav"),
       Call("AudioEngine::PlaySound", "AH.wav") >>

\* C1: AudioLayer::Initialize issues exactly three engine calls, in the
\* order Init, LoadSound("AH.wav"), PlaySound("AH.wav"): at every point the
\* calls issued are a prefix of that sequence, when Initialize has returned
\* they are exactly that sequence, a sound is never played before a sound
\* of the same name was loaded, and never loaded before Init.
AudioInitOrder ==
    /\ LET n == Min(Len(audioCalls), 3)
       IN  SubSeq(audioCalls, 1, n) = SubSeq(AudioInitSequence, 1, n)
    /\ (audioPc = 3 /\ layerCalls = << "Initialize" >>)
          => audioCalls = AudioInitSequence
    /\ audioPc < 3 => Len(audioCalls) = audioPc
    /\ \A j \in 1..Len(audioCalls) :
          /\ audioCalls[j].fn = "AudioEngine::PlaySound"
                => \E i \in 1..(j - 1) :
                      /\ audioCalls[i].fn = "AudioEngine::LoadSound"
                      /\ audioCalls[i].arg = audioCalls[j].arg
          /\ audioCalls[j].fn = "AudioEngine::LoadSound"
                => \E i \in 1..(j - 1) : audioCalls[i].fn = "AudioEngine::Init"

\* Initialize has returned, having issued its calls.
AudioInitReturned ==
    /\ audioPc = 3
    /\ layerCalls = << "Initialize" >>
    /\ Len(audioCalls) = 3

\* The one engine call a pass-through method makes.
PassThroughCall(m) ==
    IF m = "Update" THEN Call("AudioEngine::Update", "")
                    ELSE Call("AudioEngine::Shutdown", "")

\* C2: after initialisation every AudioLayer::Update makes exactly one
\* AudioEngine::Update call, every AudioLayer::Shutdown exactly one
\* AudioEngine::Shutdown call, and nothing else: the engine calls after the
\* three of Initialize are, one for one and in order, those of the
\* Update/Shutdown calls made, so no Init, LoadSound or PlaySound follows.
AudioPassThrough ==
    audioPc = 3 =>
       /\ Len(audioCalls) = 3 + (Len(layerCalls) - 1)
       /\ \A k \in 2..Len(layerCalls) :
             audioCalls[k + 2] = PassThroughCall(layerCalls[k])
       /\ \A j \in 4..Len(audioCalls) :
             audioCalls[j].fn \notin { "AudioEngine::Init",
                                       "AudioEngine::LoadSound",
                                       "AudioEngine::PlaySound" }

\* Update and Shutdown have both been called, an Update after a Shutdown.
AudioUpdatedAndShutDown ==
    \E i, j \in 2..Len(layerCalls) :
       /\ i < j
       /\ layerCalls[i] = "Shutdown"
       /\ layerCalls[j] = "Update"
       /\ Len(audioCalls) = 3 + (Len(layerCalls) - 1)

\* Positions of the calls of function f in the scene call log.
CallsOf(f) == { j \in 1..Len(sceneCalls) : sceneCalls[j].fn = f }

\* C3: SceneBuilder::Initialize registers "main" and then makes "main"
\* current before any entity is created, every entity is created in the
\* scene that registration returned, and when Initialize returns the
\* current scene is "main" and holds all the entities built.
SceneMainBeforeEntities ==
    /\ entities # << >> => ("main" \in scenes /\ currentScene = "main")
    /\ \A k \in 1..Len(entities) :
          /\ entities[k].scene = "main"
          /\ locals.scene = Ptr(entities[k].scene)
    /\ \A j \in CallsOf("Scene::CreateEntity") :
          \E r, c \in 1..(j - 1) :
             /\ r < c
             /\ sceneCalls[r] = Call("SceneManager::RegisterScene", "main")
             /\ sceneCalls[c] = Call("SceneManager::SetCurrentScene", "main")
    /\ spc = "done" =>
          /\ currentScene = "main"
          /\ Len(entities) = Cardinality(CallsOf("Scene::CreateEntity"))
          /\ Len(entities) > 0

\* Initialize has returned with entities in the scene.
SceneBuilt ==
    /\ spc = "done"
    /\ Len(entities) > 0
    /\ Cardinality(CallsOf("Scene::CreateEntity")) = Len(entities)

\* The engine calls SceneBuilder::Initialize is expected to have issued
\* when it creates the first entity.
SceneLoadSequence ==
    << Call("SceneManager::RegisterScene", "main"),
       Call("SceneManager::SetCurrentScene", "main"),
       Call("ObjLoader::LoadObj", "paddle.obj"),
       Call("ObjLoader::LoadObj", "ball.obj"),
       Call("Shader::LoadPart", "shaders/lighting.vs.glsl"),
       Call("Shader::LoadPart", "shaders/forward.fs.glsl"),
       Call("Shader::Link", "shader"),
       Call("Shader::LoadPart", "shaders/lighting.vs.glsl"),
       Call("Shader::LoadPart", "shaders/forward-emissive.fs.glsl"),
       Call("Shader::Link", "emissiveShader"),
       Call("Texture2D::LoadFromFile", "matrix.png"),
       Call("Texture2D::LoadFromFile", "monkey_emissive.png"),
       Call("Texture2D::LoadFromFile", "marble.png"),
       Call("Texture2D::LoadFromFile", "monkey_emissive.png"),
       Call("Texture2D::LoadFromFile", "marble.png"),
       Call("Texture2D::LoadFromFile", "polka.png"),
       Call("Texture2D::LoadFromFile", "polka.png") >>

\* Some load of SceneBuilder::Initialize reported a failure.
SomeSceneLoadFailed ==
    \/ locals.data # Null /\ ~ Head(locals.data).ok
    \/ locals.data2 # Null /\ ~ Head(locals.data2).ok
    \/ locals.emissiveShader # Null /\ ~ Head(locals.emissiveShader).ok
    \/ locals.monkeyMat # Null /\ ~ Head(Head(locals.monkeyMat).s_Albedo).ok

\* C4: neither Initialize checks what the engine reported: when
\* AudioLayer::Initialize has returned, all three calls were issued and
\* answered (PlaySound also after a failed LoadSound), and when
\* SceneBuilder::Initialize has returned it has issued the same load calls
\* and created the same number of entities whatever the loads reported.
NoErrorHandling ==
    /\ audioPc = 3 =>
          /\ Len(audioOk) = 3
          /\ SubSeq(audioCalls, 1, 3) = AudioInitSequence
    /\ spc = "done" =>
          /\ SubSeq(sceneCalls, 1, Len(SceneLoadSequence)) = SceneLoadSequence
          /\ Cardinality(CallsOf("Scene::CreateEntity")) = 5
          /\ Cardinality(CallsOf("MeshBuilder::Bake")) = 3
          /\ Len(entities) = 5

\* Both Initialize methods have returned after LoadSound and a scene load
\* reported a failure.
InitializedDespiteFailures ==
    /\ audioPc = 3
    /\ Len(audioOk) = 3
    /\ ~ audioOk[2]
    /\ audioCalls[3].fn = "AudioEngine::PlaySound"
    /\ spc = "done"
    /\ SomeSceneLoadFailed
    /\ Len(entities) = 5

\* Entities whose RenderableComponent has both Mesh and Material set.
ObjectEntities ==
    { k \in 1..Len(entities) :
         /\ entities[k].Renderable # Null
         /\ Head(entities[k].Renderable).Mesh # Null
         /\ Head(entities[k].Renderable).Material # Null }

CameraEntities == { k \in 1..Len(entities) : entities[k].Camera # Null }

LightEntities == { k \in 1..Len(entities) : entities[k].PointLight # Null }

MeshFile(e) == Head(Head(e.Renderable).Mesh).baked.file

HasBehaviour(e, type) ==
    \E b \in 1..Len(e.Behaviours) : e.Behaviours[b].type = type

IsSpinningPaddle(e, speed) ==
    /\ MeshFile(e) = "paddle.obj"
    /\ Head(e.Renderable).Material = locals.monkeyMat
    /\ Head(Head(e.Renderable).Material).a_EmissiveStrength = Ptr(4)
    /\ e.Behaviours = << Behaviour("RotateBehaviour", << speed, speed, speed >>),
                         Behaviour("RandomBehaviour", << >>) >>

\* The contents of the paddle/ball demo scene.
SceneContentsNow ==
       /\ Cardinality(ObjectEntities) = 3
       /\ \E a, b, c \in ObjectEntities :
             /\ ObjectEntities = { a, b, c }
             /\ MeshFile(entities[a]) = "ball.obj"
             /\ Head(entities[a].Renderable).Material = locals.paddleMat
             /\ Head(locals.paddleMat).a_EmissiveStrength = Ptr(10)
             /\ entities[a].Behaviours =
                   << Behaviour("ControlBehaviour", << 1, 1, 1 >>) >>
             /\ IsSpinningPaddle(entities[b], 45)
             /\ IsSpinningPaddle(entities[c], -45)
       /\ Cardinality(CameraEntities) = 1
       /\ \A k \in CameraEntities : Head(entities[k].Camera).IsMainCamera
       /\ LightEntities # { }
       /\ \A k \in LightEntities :
             HasBehaviour(entities[k], "LightFlickerBehaviour")
       /\ ObjectEntities \cup CameraEntities \cup LightEntities
             = 1..Len(entities)
       /\ \A k \in 1..Len(entities) : entities[k].ShadowLight = Null

\* C5: when SceneBuilder::Initialize returns the scene holds exactly: three
\* entities with a RenderableComponent whose Mesh and Material are set (the
\* ball mesh with paddleMat and a ControlBehaviour; the paddle mesh with
\* monkeyMat and RotateBehaviour then RandomBehaviour, once with speed +45
\* and once with -45 on every axis), exactly one camera entity, whose
\* IsMainCamera is true, and point-light entities each with a
\* PointLightComponent and a LightFlickerBehaviour; no ShadowLight anywhere.
\* Stated of the step on which Initialize returns.
SceneContents ==
    [][(spc # "done" /\ spc' = "done") => SceneContentsNow']_vars

\* Initialize has returned with objects, a camera and a light in the scene.
SceneHasObjectsCameraLight ==
    /\ spc = "done"
    /\ ObjectEntities # { }
    /\ CameraEntities # { }
    /\ LightEntities # { }

\* C6: Initialize creates a ring of point lights, one for each ring index
\* i in 0..numMonkeys-1 (numMonkeys = 6), at angle i * step on a circle of
\* radius 20, each with attenuation 1/10 and a LightFlickerBehaviour.
LightRing ==
    spc = "done" =>
       /\ Cardinality(LightEntities) = numMonkeys
       /\ \A i \in 0..(numMonkeys - 1) :
             \E k \in LightEntities :
                /\ entities[k].Position =
                      << CosStep(i) * 20, 2000, SinStep(i) * 20 >>
                /\ Head(entities[k].PointLight).Attenuation
                      = [ num |-> 1, den |-> 10 ]
                /\ HasBehaviour(entities[k], "LightFlickerBehaviour")

\* C7: when Initialize returns, the RenderableComponent assigned to the
\* camera entity has a Mesh and a Material set.
CameraCastsShadow ==
    spc = "done" =>
       \A k \in CameraEntities :
          /\ entities[k].Renderable # Null
          /\ Head(entities[k].Renderable).Mesh # Null
          /\ Head(entities[k].Renderable).Material # Null

\* Colours requested by the first n calls of CreateSolidTexture.
Requested(n) == { texCalls[i].color : i \in 1..n }

TextureMemoState ==
    /\ \A j \in 1..Len(texCalls) :
          IF texCalls[j].color \in Requested(j - 1)
          THEN /\ texCalls[j].created = 0
               /\ \A i \in 1..(j - 1) :
                     texCalls[i].color = texCalls[j].color
                        => texCalls[i].result = texCalls[j].result
          ELSE /\ texCalls[j].created = 1
               /\ texCalls[j].result \in 1..Len(textures)
               /\ textures[texCalls[j].result].Width = 1
               /\ textures[texCalls[j].result].Height = 1
               /\ textures[texCalls[j].result].Pixel = texCalls[j].color
               /\ \A i \in 1..(j - 1) :
                     texCalls[i].result # texCalls[j].result
    /\ Len(textures) = Cardinality(Requested(Len(texCalls)))
    /\ DOMAIN cache = Requested(Len(texCalls))
    /\ \A j \in 1..Len(texCalls) : cache[texCalls[j].color] = texCalls[j].result

TextureCacheKept ==
    \A k \in DOMAIN cache : k \in DOMAIN cache' /\ cache'[k] = cache[k]

\* C8: CreateSolidTexture memoises by colour: a call with a colour passed
\* before returns the texture that earlier call returned and creates none, a
\* call with a new colour creates exactly one 1x1 texture, caches it and
\* returns it; the textures created are as many as the distinct colours
\* requested, and no cache entry is ever replaced or removed.
TextureMemo == [] TextureMemoState /\ [][TextureCacheKept]_vars

\* A colour has been requested twice and another colour in between.
TextureCacheHit ==
    \E i, j \in 1..Len(texCalls) :
       /\ i + 1 < j
       /\ texCalls[i].color = texCalls[j].color
       /\ texCalls[i + 1].color # texCalls[i].color
       /\ Len(textures) >= 2
====
